---------------------------- MODULE Spec2Model ----------------------------
(***************************************************************************)
(* Model of the school-ai backend (src/index.js): the in-memory OTP        *)
(* registry, the /send-otp and /verify-otp handlers, the bearer-token      *)
(* middleware and the /add-student handler with its two store calls.       *)
(*                                                                         *)
(* The runtime is a single-threaded event loop: a handler runs without     *)
(* interruption up to its next `await`, so every action below is one such  *)
(* run-to-completion segment of one handler.                               *)
(***************************************************************************)
EXTENDS Integers, Sequences, FiniteSets, TLC

(***************************************************************************)
(* Bounds of the model.                                                    *)
(***************************************************************************)
MaxInFlight == 1     \* /send-otp requests waiting for the SMS provider
MaxTicks == 3        \* times the clock advances
MaxReq == 2          \* /add-student requests in flight at once
MaxRows == 2         \* rows the students table may hold before inserts stop

(***************************************************************************)
(* Program constants.                                                      *)
(***************************************************************************)
OtpBase == 100000    \* Math.floor(100000 + Math.random() * 900000)
OtpSpan == 900000
ExpiresIn == 24      \* jwt.sign(..., { expiresIn: "24h" }), in hours

(***************************************************************************)
(* JavaScript values, as far as the handlers see them.  A string is a      *)
(* sequence of one-character strings so that ToNumber can read it.         *)
(***************************************************************************)
Undefined == [t |-> "undefined", n |-> 0, s |-> <<>>]
Num(n) == [t |-> "number", n |-> n, s |-> <<>>]
Str(s) == [t |-> "string", n |-> 0, s |-> s]
\* An object, carried by the string its toString() yields.
Obj(s) == [t |-> "object", n |-> 0, s |-> s]

Digits == <<"0", "1", "2", "3", "4", "5", "6", "7", "8", "9">>

IsDigit(c) == \E d \in 1..10 : Digits[d] = c

DigitVal(c) == (CHOOSE d \in 1..10 : Digits[d] = c) - 1

RECURSIVE TrimLeft(_)
TrimLeft(s) == IF s # <<>> /\ Head(s) = " " THEN TrimLeft(Tail(s)) ELSE s

RECURSIVE TrimRight(_)
TrimRight(s) ==
    IF s # <<>> /\ s[Len(s)] = " " THEN TrimRight(SubSeq(s, 1, Len(s) - 1)) ELSE s

RECURSIVE DecimalValue(_)
DecimalValue(s) ==
    IF s = <<>> THEN 0
    ELSE 10 * DecimalValue(SubSeq(s, 1, Len(s) - 1)) + DigitVal(s[Len(s)])

\* ToNumber applied to a string: white space is trimmed, the empty string is
\* 0, a run of decimal digits is its value, anything else is NaN.  (The
\* strings of this model hold digits, spaces, and the text of built-in
\* objects; signs, fractions, exponents and radix prefixes do not occur.)
ToNumber(s) ==
    LET u == TrimRight(TrimLeft(s))
    IN  IF \A i \in 1..Len(u) : IsDigit(u[i])
        THEN [nan |-> FALSE, v |-> DecimalValue(u)]
        ELSE [nan |-> TRUE, v |-> 0]

\* ToBoolean, the test behind `!x` and the left operand of `&&`.
Truthy(x) ==
    CASE x.t = "undefined" -> FALSE
      [] x.t = "number" -> x.n # 0
      [] x.t = "string" -> x.s # <<>>
      [] OTHER -> TRUE

\* A faulty variant: x === y, which converts nothing.
LooseEq_Strict(x, y) == x = y

\* x == y (loose equality) for the stored value x and the submitted value y.
\* An object operand is first converted by ToPrimitive to its string; two
\* distinct objects are never equal.
LooseEq(x, y) ==
    LET px == IF x.t = "object" /\ y.t # "object" THEN Str(x.s) ELSE x
        py == IF y.t = "object" /\ x.t # "object" THEN Str(y.s) ELSE y
    IN  CASE px.t = "undefined" \/ py.t = "undefined" -> px.t = py.t
          [] px.t = "object" \/ py.t = "object" -> FALSE
          [] px.t = "number" /\ py.t = "number" -> px.n = py.n
          [] px.t = "string" /\ py.t = "string" -> px.s = py.s
          [] px.t = "number" /\ py.t = "string" ->
                LET m == ToNumber(py.s) IN ~m.nan /\ m.v = px.n
          [] OTHER ->
                LET m == ToNumber(px.s) IN ~m.nan /\ m.v = py.n


\* Number to its decimal string, as String(n) writes a non-negative integer.
RECURSIVE DecimalString(_)
DecimalString(n) ==
    IF n < 10 THEN <<Digits[n + 1]>>
    ELSE Append(DecimalString(n \div 10), Digits[(n % 10) + 1])

(***************************************************************************)
(* The OTP registry: `const otpStore = {}`, a plain object.  Its own       *)
(* properties are the pending codes; a lookup that finds no own property   *)
(* goes on to Object.prototype.                                            *)
(***************************************************************************)
NoPhone == ""        \* req.body.phone absent or the empty string: falsy

\* The properties of Object.prototype that the model's keys can reach, each
\* with the value a read yields.
ObjectPrototype ==
    ("__proto__" :>
        Obj(<<"[", "o", "b", "j", "e", "c", "t", " ",
              "O", "b", "j", "e", "c", "t", "]">>)) @@
    ("constructor" :>
        Obj(<<"f", "u", "n", "c", "t", "i", "o", "n", " ",
              "O", "b", "j", "e", "c", "t", "(", ")", " ", "{", " ",
              "[", "n", "a", "t", "i", "v", "e", " ", "c", "o", "d", "e", "]",
              " ", "}">>))

\* otpStore[key] as an expression.
Get(store, key) ==
    IF key \in DOMAIN store THEN Num(store[key])
    ELSE IF key \in DOMAIN ObjectPrototype THEN ObjectPrototype[key]
    ELSE Undefined

\* otpStore[key] = otp.  "__proto__" is an accessor of Object.prototype whose
\* setter ignores a number; every other key becomes an own property.
Put(store, key, otp) ==
    IF key = "__proto__" THEN store
    ELSE [k \in DOMAIN store \cup {key} |-> IF k = key THEN otp ELSE store[k]]

\* A faulty variant: the entry is left in place.
Delete_Kept(store, key) == store

\* delete otpStore[key]: removes an own property, and nothing else.
Delete(store, key) == [k \in DOMAIN store \ {key} |-> store[k]]

(***************************************************************************)
(* Bearer tokens.  jwt.sign puts iat and exp = iat + 24h in the payload;   *)
(* `signed` says whether the signature was made with JWT_SECRET.           *)
(***************************************************************************)
NoToken == [phone |-> NoPhone, iat |-> 0, exp |-> 0, signed |-> FALSE]

\* jwt.sign({ phone }, JWT_SECRET, { expiresIn: "24h" }) at time `now`.
Sign(phone, now) ==
    [phone |-> phone, iat |-> now, exp |-> now + ExpiresIn, signed |-> TRUE]

\* A faulty variant: the expiry is not looked at.
JwtVerify_NoExpiry(token, now) == token.signed

\* A faulty variant: the signature is not looked at.
JwtVerify_NoSignature(token, now) == now < token.exp

\* A faulty variant: the token is still accepted at its expiry time.
JwtVerify_Inclusive(token, now) == token.signed /\ now <= token.exp

\* jwt.verify(token, JWT_SECRET, cb): TRUE when cb gets no error.  The
\* library rejects a bad signature, and an expired token once now >= exp.
JwtVerify(token, now) == token.signed /\ now < token.exp

(***************************************************************************)
(* State.                                                                  *)
(***************************************************************************)
VARIABLES
    env,        \* the configuration names present in process.env
    proc,       \* "starting", "listening" or "exited"
    otpStore,   \* own properties of the registry: key -> pending code
    sends,      \* /send-otp requests awaiting twilioClient.messages.create
    last,       \* what an OTP route did last: the request and its answer
    prev,       \* what an OTP route did before that
    minted,     \* the tokens handed out so far
    clock,      \* the time, in hours
    reqs,       \* /add-student requests: slot -> request
    students,   \* the rows of the students table
    reply       \* the last answer to an /add-student request

vars == <<env, proc, otpStore, sends, last, prev, minted, clock, reqs, students,
          reply>>

(***************************************************************************)
(* Start-up: the environment checks, then app.listen.                      *)
(***************************************************************************)
Config == {"SUPABASE_URL", "SUPABASE_KEY", "TWILIO_SID", "TWILIO_AUTH_TOKEN",
           "TWILIO_PHONE_NUMBER", "JWT_SECRET"}

\* const JWT_SECRET = process.env.JWT_SECRET || "supersecretkey"
Fallback == "supersecretkey"

JwtSecret(e) == IF "JWT_SECRET" \in e THEN "process.env.JWT_SECRET" ELSE Fallback

\* A faulty variant: the process listens whatever the environment holds.
Startup_Unchecked ==
    /\ proc = "starting"
    /\ proc' = "listening"
    /\ UNCHANGED <<env, otpStore, sends, last, prev, minted, clock, reqs, students,
                   reply>>

\* The module body from the first environment check to app.listen.
Startup ==
    /\ proc = "starting"
    /\ proc' = IF Config \subseteq env THEN "listening" ELSE "exited"
    /\ UNCHANGED <<env, otpStore, sends, last, prev, minted, clock, reqs, students,
                   reply>>

(***************************************************************************)
(* Time passes, twelve hours at a step.                                    *)
(***************************************************************************)
TickStep == ExpiresIn \div 2

Tick ==
    /\ clock + TickStep <= MaxTicks * TickStep
    /\ clock' = clock + TickStep
    /\ UNCHANGED <<env, proc, otpStore, sends, last, prev, minted, reqs, students,
                   reply>>

(***************************************************************************)
(* What an OTP route did: the route, its inputs (for /send-otp, `otp` is   *)
(* the code generated), the status answered (0 while /send-otp awaits the  *)
(* SMS provider), the token in the answer, the provider calls made, the    *)
(* pending code of the key before and after (0: none), and, for a          *)
(* /send-otp that generates a code, the code of the /send-otp for the same *)
(* key that the route dealt with just before (0: none).                    *)
(***************************************************************************)
Done(route, phone, otp, status, token, calls, pre, post, over) ==
    [route |-> route, phone |-> phone, otp |-> otp, status |-> status,
     token |-> token, calls |-> calls, pre |-> pre, post |-> post,
     over |-> over]

\* The code of an earlier /send-otp for `phone`, when `e` is one.
Earlier(e, phone) ==
    IF e.route = "send" /\ e.phone = phone /\ e.otp.t = "number"
    THEN e.otp.n ELSE 0

\* The pending code the registry holds for a key, 0 when it holds none.
Pending(store, key) == IF key \in DOMAIN store THEN store[key] ELSE 0

Nothing == Done("none", NoPhone, Undefined, 0, NoToken, 0, 0, 0, 0)

(***************************************************************************)
(* POST /send-otp.                                                         *)
(***************************************************************************)
\* Math.floor(100000 + Math.random() * 900000), with `r` the integer
\* Math.floor(Math.random() * 900000) in 0..899999.
GenerateOtp(r) == OtpBase + r

\* The handler up to its await: validation, or generation, the write to the
\* registry and the call that hands the message to the SMS provider.
SendOtp(phone, r) ==
    /\ proc = "listening"
    /\ IF phone = NoPhone
       THEN /\ last' = Done("send", phone, Undefined, 400, NoToken, 0, 0, 0, 0)
            /\ UNCHANGED <<otpStore, sends>>
       ELSE /\ otpStore' = Put(otpStore, phone, GenerateOtp(r))
            /\ sends' = Append(sends, [phone |-> phone, otp |-> GenerateOtp(r),
                                       calls |-> 1])
            /\ last' = Done("send", phone, Num(GenerateOtp(r)), 0, NoToken, 1,
                            Pending(otpStore, phone), Pending(otpStore', phone),
                            Earlier(last, phone))
    /\ prev' = last
    /\ UNCHANGED <<env, proc, minted, clock, reqs, students, reply>>

RemoveAt(seq, i) == SubSeq(seq, 1, i - 1) \o SubSeq(seq, i + 1, Len(seq))

\* The awaited call resolves: res.json({ success: true, ... }).
DeliverOk(i) ==
    /\ i \in 1..Len(sends)
    /\ last' = Done("send", sends[i].phone, Num(sends[i].otp), 200, NoToken,
                    sends[i].calls, Pending(otpStore, sends[i].phone),
                    Pending(otpStore, sends[i].phone), 0)
    /\ sends' = RemoveAt(sends, i)
    /\ prev' = last
    /\ UNCHANGED <<env, proc, otpStore, minted, clock, reqs, students, reply>>

\* A faulty variant: a rejected call is made once more.
DeliverFail_Retry(i) ==
    /\ i \in 1..Len(sends)
    /\ last' = Done("send", sends[i].phone, Num(sends[i].otp), 0, NoToken,
                    sends[i].calls + 1, Pending(otpStore, sends[i].phone),
                    Pending(otpStore, sends[i].phone), 0)
    /\ sends' = [sends EXCEPT ![i].calls = sends[i].calls + 1]
    /\ prev' = last
    /\ UNCHANGED <<env, proc, otpStore, minted, clock, reqs, students, reply>>

\* The awaited call rejects: the catch block answers 500.
DeliverFail(i) ==
    /\ i \in 1..Len(sends)
    /\ last' = Done("send", sends[i].phone, Num(sends[i].otp), 500, NoToken,
                    sends[i].calls, Pending(otpStore, sends[i].phone),
                    Pending(otpStore, sends[i].phone), 0)
    /\ sends' = RemoveAt(sends, i)
    /\ prev' = last
    /\ UNCHANGED <<env, proc, otpStore, minted, clock, reqs, students, reply>>

(***************************************************************************)
(* POST /verify-otp: one segment, it awaits nothing.                       *)
(***************************************************************************)
\* A faulty variant: any code is accepted while something is pending.
Matches_AnyCode(store, phone, otp) == Truthy(Get(store, phone))

\* otpStore[phone] && otpStore[phone] == otp
Matches(store, phone, otp) ==
    Truthy(Get(store, phone)) /\ LooseEq(Get(store, phone), otp)

VerifyOtp(phone, otp) ==
    /\ proc = "listening"
    /\ IF phone = NoPhone \/ ~Truthy(otp)
       THEN /\ last' = Done("verify", phone, otp, 400, NoToken, 0,
                            Pending(otpStore, phone), Pending(otpStore, phone), 0)
            /\ UNCHANGED <<otpStore, minted>>
       ELSE IF Matches(otpStore, phone, otp)
       THEN /\ otpStore' = Delete(otpStore, phone)
            /\ minted' = minted \cup {Sign(phone, clock)}
            /\ last' = Done("verify", phone, otp, 200, Sign(phone, clock), 0,
                            Pending(otpStore, phone), Pending(otpStore', phone), 0)
       ELSE /\ last' = Done("verify", phone, otp, 401, NoToken, 0,
                            Pending(otpStore, phone), Pending(otpStore, phone), 0)
            /\ UNCHANGED <<otpStore, minted>>
    /\ prev' = last
    /\ UNCHANGED <<env, proc, sends, clock, reqs, students, reply>>

(***************************************************************************)
(* POST /add-student: the authenticateToken middleware, then the handler   *)
(* with its two awaited calls to the students table.                       *)
(***************************************************************************)
\* The Authorization header: absent, or `scheme token`.
NoHeader == [scheme |-> "", token |-> NoToken]

Header(scheme, token) == [scheme |-> scheme, token |-> token]

\* A faulty variant: the middleware lets a request without a Bearer header through.
LacksBearer_Never(h) == FALSE

\* !authHeader || !authHeader.startsWith("Bearer ")
LacksBearer(h) == h = NoHeader \/ h.scheme # "Bearer"

\* authHeader.split(" ")[1]
BearerToken(h) == h.token

\* req.body of /add-student; "" stands for an absent (falsy) field.
Body(name, phone, email, className, section) ==
    [name |-> name, phone |-> phone, email |-> email,
     class_name |-> className, section |-> section]

NoBody == Body("", "", "", "", "")

\* A faulty variant: the class name is not asked for.
MissingField_NoClass(b) == b.name = "" \/ b.phone = "" \/ b.section = ""

\* !name || !phone || !class_name || !section
MissingField(b) ==
    b.name = "" \/ b.phone = "" \/ b.class_name = "" \/ b.section = ""

\* The value the filter `email.eq.${email}` compares with: an absent email
\* is interpolated as the text "undefined".
EmailFilter(b) == IF b.email = "" THEN "undefined" ELSE b.email

\* The rows .or(`phone.eq.${phone},email.eq.${email}`) selects.  A row
\* inserted without an email holds NULL there, which equals nothing.
Matching(rows, b) ==
    {k \in 1..Len(rows) :
        \/ rows[k].phone = b.phone
        \/ rows[k].email # "" /\ rows[k].email = EmailFilter(b)}

\* The row .insert([{ name, phone, email, class_name, section }]) adds; the
\* table generates the id.
NewRow(rows, b) ==
    [id |-> Len(rows) + 1, name |-> b.name, phone |-> b.phone,
     email |-> b.email, class_name |-> b.class_name, section |-> b.section]

\* What the insert hands back as `data`: nothing (null), or the rows added.
NoData == <<>>

\* The answer to an /add-student request: the status, the request, the time
\* the middleware saw it, whether jwt.verify accepted its token, the calls
\* it made to the table, and the `data` of a 200.
Reply(status, h, b, at, verified, calls, data) ==
    [status |-> status, header |-> h, body |-> b, at |-> at,
     verified |-> verified, calls |-> calls, data |-> data]

NoReply == Reply(0, NoHeader, NoBody, 0, FALSE, 0, NoData)

\* An /add-student request between two segments of its handler: where it
\* awaits and what it carries.
Request(pc, h, b, at, calls) ==
    [pc |-> pc, header |-> h, body |-> b, at |-> at, verified |-> TRUE,
     calls |-> calls]

\* The answer to a request that has got past the validation.
Answer(q, status, data) ==
    Reply(status, q.header, q.body, q.at, q.verified, q.calls, data)

\* The request from its arrival to its first await: authenticateToken, the
\* validation, and the existence query handed to the table.
AddStudent(h, b) ==
    /\ proc = "listening"
    /\ IF LacksBearer(h)
       THEN /\ reply' = Reply(401, h, b, clock, FALSE, 0, NoData)
            /\ UNCHANGED reqs
       ELSE IF ~JwtVerify(BearerToken(h), clock)
       THEN /\ reply' = Reply(403, h, b, clock, FALSE, 0, NoData)
            /\ UNCHANGED reqs
       ELSE IF MissingField(b)
       THEN /\ reply' = Reply(400, h, b, clock, TRUE, 0, NoData)
            /\ UNCHANGED reqs
       ELSE /\ reqs' = Append(reqs, Request("check", h, b, clock, 1))
            /\ UNCHANGED reply
    /\ UNCHANGED <<env, proc, otpStore, sends, last, prev, minted, clock, students>>

\* The errors the existence query may come back with: none, PGRST116, or
\* any other.
CheckErrors == {"none", "PGRST116", "other"}

\* What .single() makes of the rows selected: the row when there is exactly
\* one, and error PGRST116 with no data when there are none or several.
Single(found) ==
    IF Cardinality(found) = 1
    THEN [data |-> TRUE, error |-> "none"]
    ELSE [data |-> FALSE, error |-> "PGRST116"]

\* The handler on the result of the existence query, given whether it holds
\* a row and which error: the status answered, 0 for going on to the insert.
AfterCheck(data, error) ==
    IF data THEN 409
    ELSE IF error # "none" /\ error # "PGRST116" THEN 500
    ELSE 0

\* The existence query answers with what .single() makes of the rows.
CheckReturns(i) ==
    /\ i \in 1..Len(reqs)
    /\ reqs[i].pc = "check"
    /\ LET found == Matching(students, reqs[i].body)
           status == AfterCheck(Single(found).data, Single(found).error)
       IN  IF status # 0
           THEN /\ reply' = Answer(reqs[i], status, NoData)
                /\ reqs' = RemoveAt(reqs, i)
           ELSE /\ reqs' = [reqs EXCEPT ![i].pc = "insert",
                                        ![i].calls = reqs[i].calls + 1]
                /\ UNCHANGED reply
    /\ UNCHANGED <<env, proc, otpStore, sends, last, prev, minted, clock, students>>

\* The existence query fails with another error: no data, and 500 (as when
\* the call throws).
CheckFails(i) ==
    /\ i \in 1..Len(reqs)
    /\ reqs[i].pc = "check"
    /\ reply' = Answer(reqs[i], AfterCheck(FALSE, "other"), NoData)
    /\ reqs' = RemoveAt(reqs, i)
    /\ UNCHANGED <<env, proc, otpStore, sends, last, prev, minted, clock, students>>

\* What the client library hands back from an insert that is not followed
\* by .select(): the rows added ("representation", the default of
\* supabase-js 1.x) or nothing ("minimal", the default since 2.0, whose
\* form of options createClient is given here).
Returning == {"representation", "minimal"}

\* The insert answers without error: the row is in the table, 200.
InsertReturns(i, returning) ==
    /\ i \in 1..Len(reqs)
    /\ reqs[i].pc = "insert"
    /\ students' = Append(students, NewRow(students, reqs[i].body))
    /\ reply' = Answer(reqs[i], 200,
                       IF returning = "representation"
                       THEN <<NewRow(students, reqs[i].body)>> ELSE NoData)
    /\ reqs' = RemoveAt(reqs, i)
    /\ UNCHANGED <<env, proc, otpStore, sends, last, prev, minted, clock>>

\* The insert answers with an error (or throws): nothing is added, 500.
InsertFails(i) ==
    /\ i \in 1..Len(reqs)
    /\ reqs[i].pc = "insert"
    /\ reply' = Answer(reqs[i], 500, NoData)
    /\ reqs' = RemoveAt(reqs, i)
    /\ UNCHANGED <<env, proc, otpStore, sends, last, prev, minted, clock, students>>

(***************************************************************************)
(* The OTP protocol: start-up, /send-otp and /verify-otp.                  *)
(***************************************************************************)
Phones == {"+15551234567", "__proto__", NoPhone}

\* Values of Math.floor(Math.random() * 900000): both ends of its range.
Draws == {0, OtpSpan - 1}

\* Values of req.body.otp: absent, numbers, strings.
SubmittedOtps ==
    {Undefined, Num(GenerateOtp(0)), Num(GenerateOtp(OtpSpan - 1)),
     Str(DecimalString(GenerateOtp(0))),
     Str(<<"0">> \o DecimalString(GenerateOtp(0))),
     Str(ObjectPrototype["__proto__"].s)}

EmptyStore == [k \in {} |-> 0]

Init ==
    /\ env \in {Config} \cup {Config \ {c} : c \in Config}
    /\ proc = "starting"
    /\ otpStore = EmptyStore
    /\ sends = <<>>
    /\ last = Nothing
    /\ prev = Nothing
    /\ minted = {}
    /\ clock = 0
    /\ reqs = <<>>
    /\ students = <<>>
    /\ reply = NoReply

Next ==
    \/ Startup
    \/ \E p \in Phones, r \in Draws : Len(sends) < MaxInFlight /\ SendOtp(p, r)
    \/ \E i \in 1..Len(sends) : DeliverOk(i)
    \/ \E i \in 1..Len(sends) : DeliverFail(i)
    \/ \E p \in Phones, o \in SubmittedOtps : VerifyOtp(p, o)

Spec == Init /\ [][Next]_vars

(***************************************************************************)
(* Registration: start-up and /add-student, with the tokens a client may   *)
(* present as inputs.  A token outlives the process that signed it, so the *)
(* process may be shown one signed at any earlier time.                    *)
(***************************************************************************)
Holder == "+15551234567"

\* Signed with JWT_SECRET just now.
FreshToken == Sign(Holder, clock)

\* Signed with JWT_SECRET 36 hours ago.
ExpiredToken == Sign(Holder, clock - ExpiresIn - TickStep)

\* Well-formed and unexpired, signed with another secret.
ForgedToken == [Sign(Holder, clock) EXCEPT !.signed = FALSE]

Headers ==
    {NoHeader, Header("bearer", FreshToken), Header("Bearer", FreshToken),
     Header("Bearer", ExpiredToken), Header("Bearer", ForgedToken),
     Header("Bearer", NoToken)}

Bodies ==
    {Body("A", "+1", "", "X", "Y"), Body("A", "+1", "a@x.io", "X", "Y"),
     Body("A", "+2", "a@x.io", "X", "Y"), Body("A", "+1", "", "", "Y")}

NextReg ==
    \/ Startup
    \/ \E h \in Headers, b \in Bodies : Len(reqs) < MaxReq /\ AddStudent(h, b)
    \/ \E i \in 1..Len(reqs) : CheckReturns(i)
    \/ \E i \in 1..Len(reqs) : CheckFails(i)
    \/ \E i \in 1..Len(reqs), d \in Returning :
          Len(students) < MaxRows /\ InsertReturns(i, d)
    \/ \E i \in 1..Len(reqs) : InsertFails(i)

SpecReg == Init /\ [][NextReg]_vars

(***************************************************************************)
(* Tokens over time: the OTP protocol for one key, the clock, and          *)
(* /add-student presenting the tokens handed out, with a body that the     *)
(* validation refuses once the middleware has let the request through.     *)
(***************************************************************************)
Unsectioned == Body("A", "+1", "", "X", "")

NextAuth ==
    \/ Startup
    \/ Tick
    \/ Len(sends) < MaxInFlight /\ SendOtp(Holder, 0)
    \/ \E i \in 1..Len(sends) : DeliverOk(i)
    \/ \E i \in 1..Len(sends) : DeliverFail(i)
    \/ VerifyOtp(Holder, Num(GenerateOtp(0)))
    \/ \E tok \in minted : AddStudent(Header("Bearer", tok), Unsectioned)

SpecAuth == Init /\ [][NextAuth]_vars

(***************************************************************************)
(* Properties of the OTP protocol.                                         *)
(***************************************************************************)
\* The submitted value is the code c: the number, or its decimal string.
Denotes(otp, c) == otp = Num(c) \/ otp = Str(DecimalString(c))

\* The submitted value is a code other than c: a number or a numeral of
\* another value, or a non-empty string that is no numeral.
DiffersFrom(otp, c) ==
    \/ otp.t = "number" /\ otp.n # 0 /\ otp.n # c
    \/ otp.t = "string" /\ otp.s # <<>>
          /\ (ToNumber(otp.s).nan \/ ToNumber(otp.s).v # c)

\* e is a /verify-otp for a key whose pending code it submitted.
VerifiedPending(e) ==
    e.route = "verify" /\ e.phone # NoPhone /\ e.pre # 0 /\ Denotes(e.otp, e.pre)

\* C1: a /verify-otp that submits the code a /send-otp stored for its key is
\* answered 200 with a token for that key and removes the entry; the same
\* request made again straight after it is answered 401.
C1_AcceptedOncePerIssuance ==
    /\ VerifiedPending(last) =>
          /\ last.status = 200
          /\ last.token.signed /\ last.token.phone = last.phone
          /\ last.token \in minted
          /\ last.post = 0 /\ last.phone \notin DOMAIN otpStore
    /\ (VerifiedPending(prev) /\ last.route = "verify"
            /\ last.phone = prev.phone /\ last.otp = prev.otp) =>
          /\ last.status = 401
          /\ last.token = NoToken

\* C1 witness: the correct code was accepted and then submitted once more.
C1_Witness ==
    /\ VerifiedPending(prev) /\ prev.status = 200
    /\ last.route = "verify" /\ last.phone = prev.phone /\ last.otp = prev.otp
    /\ last.status = 401

\* e is a /send-otp for a key that generated a code after an earlier
\* /send-otp for the same key had generated another.
Reissued(e) ==
    e.route = "send" /\ e.status = 0 /\ e.over # 0 /\ e.over # e.otp.n

\* C2: after two issuances for a key, a /verify-otp with the first code is
\* answered 401 and one with the second code 200, and the registry holds the
\* second code, and only it, for the key.
C2_LatestCodeWins ==
    /\ Reissued(last) => Pending(otpStore, last.phone) = last.otp.n
    /\ (Reissued(prev) /\ last.route = "verify" /\ last.phone = prev.phone) =>
          /\ Denotes(last.otp, prev.over) => last.status = 401
          /\ Denotes(last.otp, prev.otp.n) => last.status = 200

\* C3: a /verify-otp whose code differs from the pending one is answered 401
\* and leaves the entry as it was; the pending code submitted after it is
\* accepted.
C3_WrongCodeKeepsEntry ==
    /\ (last.route = "verify" /\ last.phone # NoPhone /\ last.pre # 0
            /\ DiffersFrom(last.otp, last.pre)) =>
          /\ last.status = 401
          /\ last.post = last.pre
          /\ Pending(otpStore, last.phone) = last.pre
    /\ (prev.route = "verify" /\ prev.phone # NoPhone /\ prev.pre # 0
            /\ DiffersFrom(prev.otp, prev.pre)
            /\ last.route = "verify" /\ last.phone = prev.phone
            /\ Denotes(last.otp, prev.pre)) =>
          last.status = 200

\* C3 witness: a wrong code was refused and the pending code then accepted.
C3_Witness ==
    /\ prev.route = "verify" /\ prev.pre # 0 /\ DiffersFrom(prev.otp, prev.pre)
    /\ prev.status = 401
    /\ last.route = "verify" /\ last.phone = prev.phone
    /\ Denotes(last.otp, prev.pre) /\ last.status = 200

\* C4: a /verify-otp for a key that has no pending code is answered 401
\* whatever code it submits (400 when it submits none), yields no token and
\* leaves the registry as it was.
C4_FailsClosed ==
    (last.route = "verify" /\ last.pre = 0) =>
        /\ last.status \in {400, 401}
        /\ last.token = NoToken
        /\ last.post = 0

\* C5: every token is the answer to a /verify-otp whose code matched the
\* code pending for its key; no other answer carries a token.
C5_TokenOnlyOnMatch ==
    /\ \A e \in {prev, last} :
          e.token # NoToken =>
              /\ e.route = "verify" /\ e.status = 200
              /\ e.pre # 0 /\ ~DiffersFrom(e.otp, e.pre)
              /\ e.token.phone = e.phone
              /\ e.token \in minted

(***************************************************************************)
(* Properties of the middleware and of /add-student (SpecReg).             *)
(***************************************************************************)
\* The header is `Bearer ` followed by a token that JWT_SECRET signed and
\* that has not expired.
ValidBearer(h) == h.scheme = "Bearer" /\ h.token = FreshToken

\* C6 as stated: a request without a valid bearer token is answered 401 and
\* makes no call to the table.
C6_Unauthorized401 ==
    (reply.status # 0 /\ ~ValidBearer(reply.header)) =>
        reply.status = 401 /\ reply.calls = 0

\* C6 as amended: a request without a valid bearer token is answered 401
\* when the header is absent or not in Bearer form and 403 when its token is
\* invalid or expired, and in both cases it makes no call to the table: it
\* is answered at once, whatever its body.
C6_UnauthorizedNoStore ==
    /\ (reply.status # 0 /\ ~ValidBearer(reply.header)) =>
          /\ reply.status = IF reply.header.scheme = "Bearer" THEN 403 ELSE 401
          /\ reply.calls = 0
    /\ \A i \in 1..Len(reqs) : ValidBearer(reqs[i].header)

\* C6 witness: a complete registration without a header was refused.
C6_Witness ==
    /\ reply.status = 401 /\ reply.header = NoHeader
    /\ ~MissingField(reply.body) /\ reply.calls = 0

\* C7: a request has called the table only if jwt.verify accepted its
\* token before; one whose verification failed or was skipped has made no
\* call.
C7_StoreAfterVerify ==
    /\ \A i \in 1..Len(reqs) :
          reqs[i].calls > 0 =>
              reqs[i].verified /\ reqs[i].header.token.signed
                  /\ reqs[i].at < reqs[i].header.token.exp
    /\ reply.calls > 0 =>
          reply.verified /\ reply.header.token.signed
              /\ reply.at < reply.header.token.exp
    /\ ~reply.verified => reply.calls = 0

\* C7 witness: a verified request made both calls and was answered 200.
C7_Witness == reply.status = 200 /\ reply.verified /\ reply.calls = 2

\* C8: no header or no Bearer form gives 401, a Bearer header with an
\* invalid or expired token gives 403, and neither runs the handler; a valid
\* token gives neither status and runs the handler.
C8_AuthStatuses ==
    reply.status # 0 =>
        /\ (reply.header = NoHeader \/ reply.header.scheme # "Bearer") =>
              reply.status = 401 /\ ~reply.verified
        /\ (reply.header.scheme = "Bearer"
                /\ reply.header.token \in {ExpiredToken, ForgedToken, NoToken}) =>
              reply.status = 403 /\ ~reply.verified
        /\ ValidBearer(reply.header) =>
              reply.status \in {200, 400, 409, 500} /\ reply.verified

\* C8 witness: an expired token was refused with 403.
C8_Witness ==
    reply.status = 403 /\ reply.header = Header("Bearer", ExpiredToken)

\* C10: no two rows of the table share a phone, or an email that is not
\* empty.
C10_UniquePhoneAndEmail ==
    \A j, k \in 1..Len(students) :
        j # k =>
            /\ students[j].phone # students[k].phone
            /\ students[j].email = "" \/ students[j].email # students[k].email

(***************************************************************************)
(* Properties of tokens over time (SpecAuth).                              *)
(***************************************************************************)
\* C9 as stated: a token handed out at time t is accepted at any time up to
\* and including t + 24h and refused after it.
C9_ValidThrough24h ==
    (reply.status # 0 /\ reply.header.token \in minted) =>
        /\ reply.at <= reply.header.token.iat + ExpiresIn =>
              reply.verified /\ reply.status # 403
        /\ reply.at > reply.header.token.iat + ExpiresIn =>
              ~reply.verified /\ reply.status = 403

\* C9 as amended: a token handed out at time t is accepted at any time
\* before t + 24h and refused at t + 24h and at any time after it; nothing
\* else decides: not what the registry holds, nor what was sent or verified
\* since.
C9_ValidBefore24h ==
    (reply.status # 0 /\ reply.header.token \in minted) =>
        /\ reply.at < reply.header.token.iat + ExpiresIn =>
              reply.verified /\ reply.status # 403
        /\ reply.at >= reply.header.token.iat + ExpiresIn =>
              ~reply.verified /\ reply.status = 403

\* C9 witness: a token was refused exactly 24 hours after it was handed out.
C9_Witness ==
    /\ reply.status = 403 /\ reply.header.token \in minted
    /\ reply.at = reply.header.token.iat + ExpiresIn

(***************************************************************************)
(* Properties of the /add-student handler (SpecReg).                       *)
(***************************************************************************)
\* Request i goes on from its existence query to the insert in this step.
GoesOnToInsert(i) ==
    /\ i \in 1..Len(reqs) /\ reqs[i].pc = "check"
    /\ Len(reqs') = Len(reqs) /\ reqs'[i].pc = "insert"

\* Request i is answered in this step and leaves.
Answered(i) == i \in 1..Len(reqs) /\ reqs' = RemoveAt(reqs, i)

\* The rows of the table that hold the phone of the body.
SamePhone(b) == {k \in 1..Len(students) : students[k].phone = b.phone}

\* The rows of the table that hold the email of the body, if it has one.
SameEmail(b) ==
    {k \in 1..Len(students) : b.email # "" /\ students[k].email = b.email}

\* C11: a request with all required fields that awaits its existence query
\* while a row holds its phone does not go on to the insert, whatever its
\* email: when it is answered, it is with 409 (500 if the query fails), and
\* the table stays as it is.
C11_PhoneConflict409 ==
    [][\A i \in 1..Len(reqs) :
          (reqs[i].pc = "check" /\ SamePhone(reqs[i].body) # {}) =>
              /\ ~GoesOnToInsert(i)
              /\ Answered(i) =>
                    reply'.status \in {409, 500} /\ students' = students]_vars

\* The row carries the fields the request submitted.
Carries(row, b) ==
    /\ row.name = b.name /\ row.phone = b.phone /\ row.email = b.email
    /\ row.class_name = b.class_name /\ row.section = b.section

\* C12: a request with the required fields that went on from its existence
\* query to the insert is, unless the store fails, answered 200 with the one
\* record it inserted: the submitted fields and the identifier the table
\* generated for them.
C12_InsertedAndReturned ==
    (reply.calls = 2 /\ reply.status # 500) =>
        /\ reply.status = 200
        /\ Len(reply.data) = 1
        /\ \E k \in 1..Len(students) :
              students[k] = reply.data[1] /\ students[k].id = k
                  /\ Carries(students[k], reply.body)

\* One of name, phone, class name and section is absent from the body.
Absent(b) == \E f \in {"name", "phone", "class_name", "section"} : b[f] = ""

\* C13: a request that got past the middleware with a required field absent
\* is answered 400 having made no call to the table, and the step that
\* answers 400 leaves the table and the requests in flight as they were; a
\* request that calls the table has every required field, its first call is
\* the existence query and its second the insert.
C13_ValidationFirst ==
    /\ [](/\ (reply.verified /\ Absent(reply.body)) =>
                 reply.status = 400 /\ reply.calls = 0
          /\ reply.status = 400 => Absent(reply.body) /\ reply.calls = 0
          /\ reply.status = 409 => reply.calls = 1
          /\ reply.status = 200 => reply.calls = 2
          /\ \A i \in 1..Len(reqs) :
                /\ ~Absent(reqs[i].body)
                /\ reqs[i].calls = IF reqs[i].pc = "check" THEN 1 ELSE 2)
    /\ [][(reply' # reply /\ reply'.status = 400) =>
              UNCHANGED <<students, reqs>>]_vars

\* C13 witness: with a row in the table, a request without a class name got
\* past the middleware and was answered 400 without a call.
C13_Witness ==
    /\ reply.status = 400 /\ reply.verified /\ reply.body.class_name = ""
    /\ reply.calls = 0 /\ students # <<>>

\* C14: a request answered after its existence query alone gets 409 or 500
\* and no data; a request goes on to the insert only when its existence
\* query runs while no row holds its phone or its email; and a row found
\* gives 409 whatever error comes with it.
C14_CheckErrorPrecedence ==
    /\ [](/\ reply.calls = 1 => reply.status \in {409, 500} /\ reply.data = NoData
          /\ \A e \in CheckErrors : AfterCheck(TRUE, e) = 409)
    /\ [][\A i \in 1..Len(reqs) :
              GoesOnToInsert(i) =>
                  SamePhone(reqs[i].body) \cup SameEmail(reqs[i].body) = {}]_vars

(***************************************************************************)
(* Further properties of the OTP protocol (Spec).                          *)
(***************************************************************************)
\* C15: a /send-otp with a phone makes one call to the SMS provider and is
\* answered 500 when the call fails and 200 when it succeeds, the request
\* being over with that answer; a /send-otp without a phone is answered 400,
\* makes no call, and leaves the registry and the calls in flight as they
\* were.
C15_OneDeliveryAttempt ==
    /\ [](/\ \A e \in {prev, last} :
                e.route = "send" =>
                    IF e.phone = NoPhone
                    THEN e.status = 400 /\ e.calls = 0
                    ELSE e.status \in {0, 200, 500} /\ e.calls = 1
          /\ \A i \in 1..Len(sends) :
                sends[i].calls = 1 /\ sends[i].phone # NoPhone)
    /\ [][(<<prev, last>>' # <<prev, last>> /\ last'.route = "send") =>
              CASE last'.status = 400 -> UNCHANGED <<otpStore, sends>>
                [] last'.status = 0 -> Len(sends') = Len(sends) + 1
                [] OTHER -> Len(sends') = Len(sends) - 1 /\ UNCHANGED otpStore]_vars

\* C15 witness: a /send-otp made its call, the call failed, and the request
\* was answered 500 after that one call.
C15_Witness ==
    /\ prev.route = "send" /\ prev.status = 0 /\ prev.calls = 1
    /\ last.route = "send" /\ last.status = 500 /\ last.calls = 1
    /\ last.phone = prev.phone /\ last.otp = prev.otp /\ sends = <<>>

(***************************************************************************)
(* Properties of start-up (SpecAuth).                                      *)
(***************************************************************************)
\* The settings the process cannot do without: the data store's endpoint
\* and key, the SMS account's id, auth token and sender number, and the
\* signing secret.
Required ==
    {"SUPABASE_URL", "SUPABASE_KEY", "TWILIO_SID", "TWILIO_AUTH_TOKEN",
     "TWILIO_PHONE_NUMBER", "JWT_SECRET"}

\* No request has been handled: nothing was answered, stored, sent, signed
\* or is in flight.
Untouched ==
    /\ last = Nothing /\ prev = Nothing /\ reply = NoReply
    /\ otpStore = EmptyStore /\ sends = <<>> /\ reqs = <<>> /\ minted = {}

\* C16: when one of the required settings is absent the process never
\* listens and no request is ever handled; whenever the process listens, and
\* so whenever a token is signed or verified, the secret is the one of the
\* environment and not the fallback.
C16_FailFast ==
    /\ ~(Required \subseteq env) => proc # "listening" /\ Untouched
    /\ (proc = "listening" \/ ~Untouched) =>
          Required \subseteq env /\ JwtSecret(env) # Fallback

\* C16 witness: the signing secret is absent and the process has exited.
C16_Witness ==
    /\ "JWT_SECRET" \notin env /\ proc = "exited" /\ Untouched

\* The submitted value is a number, or a string of decimal digits.
IsNumeral(otp) ==
    \/ otp.t = "number"
    \/ otp.t = "string" /\ otp.s # <<>> /\ \A i \in 1..Len(otp.s) : IsDigit(otp.s[i])

\* The integer a numeral denotes.
Denoted(otp) == IF otp.t = "number" THEN otp.n ELSE DecimalValue(otp.s)

\* C17: a /verify-otp for a key with a pending code c that submits a number
\* or a string of decimal digits is answered 200 when the value denotes c
\* and 401 when it denotes another integer, be it a number or a string.
C17_RepresentationInsensitive ==
    \A e \in {prev, last} :
        (e.route = "verify" /\ e.phone # NoPhone /\ e.pre # 0
             /\ IsNumeral(e.otp) /\ Denoted(e.otp) # 0) =>
            e.status = IF Denoted(e.otp) = e.pre THEN 200 ELSE 401

\* C17 witness: a number other than the pending code was refused, and a
\* string of digits denoting the code was then accepted.
C17_Witness ==
    /\ prev.route = "verify" /\ prev.otp.t = "number" /\ IsNumeral(prev.otp)
    /\ prev.pre # 0 /\ Denoted(prev.otp) # prev.pre /\ prev.status = 401
    /\ last.route = "verify" /\ last.otp.t = "string" /\ last.phone = prev.phone
    /\ IsNumeral(last.otp) /\ Denoted(last.otp) = last.pre /\ last.status = 200

\* e is a /verify-otp that was answered 200.
Succeeded(e) == e.route = "verify" /\ e.status = 200

\* C18: of two /verify-otp requests for a key that carry the same code, with
\* no /send-otp between them, at most one succeeds; and every successful
\* /verify-otp uses up one code issued for its key: the code was pending
\* before it and nothing is pending after it, so the successes for a key
\* never outnumber the codes issued for it.
C18_AtMostOncePerCode ==
    /\ ~(Succeeded(prev) /\ Succeeded(last) /\ last.phone = prev.phone
            /\ last.otp = prev.otp)
    /\ \A e \in {prev, last} :
          Succeeded(e) =>
              /\ e.pre \in OtpBase..(OtpBase + OtpSpan - 1)
              /\ e.post = 0

\* e is the 500 of a /send-otp whose call to the SMS provider failed.
Undelivered(e) == e.route = "send" /\ e.status = 500

\* C19: when a /send-otp is answered 500 straight after it generated its
\* code, that code is the pending code of its phone; and a /verify-otp that
\* submits the code next, the registry untouched since, is answered 200 with
\* a token.
C19_UndeliveredCodeVerifies ==
    /\ (Undelivered(last) /\ prev.route = "send" /\ prev.status = 0
            /\ prev.phone = last.phone /\ prev.otp = last.otp) =>
          Pending(otpStore, last.phone) = last.otp.n
    /\ (Undelivered(prev) /\ prev.post # 0 /\ last.route = "verify"
            /\ last.phone = prev.phone /\ Denotes(last.otp, prev.post)) =>
          last.status = 200 /\ last.token \in minted

\* The registry as far as the key of e goes, as e found it.
Found(e) == IF e.pre = 0 THEN EmptyStore ELSE Put(EmptyStore, e.phone, e.pre)

\* C20: every value the registry holds is an integer of 100000..999999; the
\* truthiness test of a /verify-otp passes exactly when its key has a
\* pending entry; and a request for one key leaves the entry of every other
\* key as it was.
C20_RegistryValuesAndKeys ==
    /\ [](/\ \A k \in DOMAIN otpStore :
                otpStore[k] \in OtpBase..(OtpBase + OtpSpan - 1)
          /\ (last.route = "verify" /\ last.status \in {200, 401}) =>
                (Truthy(Get(Found(last), last.phone)) <=> last.pre # 0))
    /\ [][\A q \in Phones :
              (<<prev, last>>' # <<prev, last>> /\ last'.phone # q) =>
                  Pending(otpStore', q) = Pending(otpStore, q)]_vars

=============================================================================
